---- MODULE Spec2Model ----
(***************************************************************************)
(* A model of KinopoiskScraper (src/kinopoisk_scraper.py): the page        *)
(* counter get_total_pages, the page fetcher fetch_ratings_page, the       *)
(* record extractor parse_rating_item and the orchestrating loop of        *)
(* export_to_csv.                                                          *)
(*                                                                         *)
(* Texts are sequences of characters.  A character is a one-element        *)
(* string; the non-ASCII characters of the source are written as tokens:   *)
(* "cyr_i" "cyr_z" (the word of the summary indicator), "cyr_m" "cyr_n"    *)
(* (the minutes unit, with "cyr_i" in between), "endash" and "nbsp".       *)
(* An optional value (Python's None or a value) is a sequence of length    *)
(* 0 or 1.                                                                 *)
(***************************************************************************)
EXTENDS Integers, Sequences, FiniteSets, TLC

VARIABLES
    \* export_to_csv
    pc,           \* position in export_to_csv
    total_pages,  \* local total_pages (line 267)
    page,         \* loop variable of line 275
    items,        \* fragments returned by fetch_ratings_page (line 276)
    idx,          \* number of fragments of items already processed
    all_ratings,  \* the accumulator (line 273)
    src,          \* for each accumulated record, <<page, index>> of its fragment
    fetchLog,     \* the calls of fetch_ratings_page made so far
    sleepLog,     \* the pages after which time.sleep(1.5) was called
    opened,       \* number of times the output file was opened for writing
    sinkOutcome,  \* how the write of the output file ended, if it was attempted
    csvfile,      \* the rows of the output file, if it exists
    retval,       \* the return value of export_to_csv, if it returned
    firstFetchOk, \* whether the request of get_total_pages succeeded
    \* get_total_pages applied to one response
    doc, pagesOut,
    \* parse_rating_item applied to one fragment
    item, result

exportVars == <<pc, total_pages, page, items, idx, all_ratings, src, fetchLog,
                sleepLog, opened, sinkOutcome, csvfile, retval, firstFetchOk>>
pagesVars == <<doc, pagesOut>>
parseVars == <<item, result>>
vars == <<exportVars, pagesVars, parseVars>>

None == <<>>
Some(v) == <<v>>

-----------------------------------------------------------------------------
(* Characters and the string functions the code uses.                      *)

Digits == {"0", "1", "2", "3", "4", "5", "6", "7", "8", "9"}

\* Python's \s and str.strip() on str: Unicode whitespace, U+00A0 included.
Whitespace == {" ", "\n", "nbsp"}

DigitVal(c) ==
    CASE c = "0" -> 0 [] c = "1" -> 1 [] c = "2" -> 2 [] c = "3" -> 3
      [] c = "4" -> 4 [] c = "5" -> 5 [] c = "6" -> 6 [] c = "7" -> 7
      [] c = "8" -> 8 [] c = "9" -> 9

\* int(s) for a non-empty run of digits
RECURSIVE ToInt(_)
ToInt(s) ==
    IF s = <<>> THEN 0
    ELSE ToInt(SubSeq(s, 1, Len(s) - 1)) * 10 + DigitVal(s[Len(s)])

\* the literal lit occurs in t at position i
LitAt(t, i, lit) ==
    /\ i >= 1
    /\ i + Len(lit) - 1 <= Len(t)
    /\ \A k \in 1..Len(lit) : t[i + k - 1] = lit[k]

\* \s* at position i: the first position at or after i that is not whitespace
SkipSpace(t, i) ==
    CHOOSE j \in i..(Len(t) + 1) :
        /\ \A k \in i..(j - 1) : t[k] \in Whitespace
        /\ (j = Len(t) + 1 \/ t[j] \notin Whitespace)

\* (\d+) at position i, greedy: the end of the run of digits starting at i
DigitRunEnd(t, i) ==
    CHOOSE j \in i..Len(t) :
        /\ \A k \in i..j : t[k] \in Digits
        /\ (j = Len(t) \/ t[j + 1] \notin Digits)

IsDigitAt(t, i) == i >= 1 /\ i <= Len(t) /\ t[i] \in Digits

Min(S) == CHOOSE m \in S : \A n \in S : m <= n

\* str.strip()
Strip(t) ==
    LET keep == {i \in 1..Len(t) : t[i] \notin Whitespace}
    IN  IF keep = {} THEN <<>>
        ELSE SubSeq(t, Min(keep), CHOOSE m \in keep : \A n \in keep : n <= m)

\* re.search(r'(\d+)', t): group 1 of the leftmost match, if any
SearchDigits(t) ==
    LET at == {i \in 1..Len(t) : t[i] \in Digits}
    IN  IF at = {} THEN None
        ELSE Some(SubSeq(t, Min(at), DigitRunEnd(t, Min(at))))

\* a match of lit \s* (\d+) starts at position i
LitSpaceDigitsAt(t, i, lit) ==
    LitAt(t, i, lit) /\ IsDigitAt(t, SkipSpace(t, i + Len(lit)))

IZ == <<"cyr_i", "cyr_z">>

\* re.search(r'из\s*(\d+)', t): group 1 of the leftmost match, if any
SearchIzTotal(t) ==
    LET at == {i \in 1..Len(t) : LitSpaceDigitsAt(t, i, IZ)}
    IN  IF at = {} THEN None
        ELSE LET d == SkipSpace(t, Min(at) + Len(IZ))
             IN  Some(SubSeq(t, d, DigitRunEnd(t, d)))

-----------------------------------------------------------------------------
(* get_total_pages.  A response is the outcome of the request of line 61:  *)
(* ok is FALSE when requests.get or raise_for_status raises; otherwise     *)
(* pagesFromTo is the text of the first div.pagesFromTo and total_span the *)
(* text of the first span.profile_V2_votes_total, when there is one.       *)

PageSize == 50

\* a wrong ceiling: one page too many on exact multiples of the page size
PagesForOffByOne(total_ratings) == total_ratings \div PageSize + 1

PagesFor(total_ratings) == (total_ratings + (PageSize - 1)) \div PageSize

get_total_pages(resp) ==
    IF ~resp.ok THEN 0
    ELSE IF resp.pagesFromTo # None /\ SearchIzTotal(resp.pagesFromTo[1]) # None
         THEN PagesFor(ToInt(SearchIzTotal(resp.pagesFromTo[1])[1]))
    ELSE IF resp.total_span # None /\ SearchDigits(resp.total_span[1]) # None
         THEN PagesFor(ToInt(SearchDigits(resp.total_span[1])[1]))
    ELSE 1

FailedResponse == [ok |-> FALSE, pagesFromTo |-> None, total_span |-> None]

-----------------------------------------------------------------------------
(* fetch_ratings_page.  A response is the outcome of the request of line   *)
(* 106: ok is FALSE when requests.get or raise_for_status raises;          *)
(* otherwise divs is the list of the div.item fragments of the document.   *)

fetch_ratings_page(resp) == IF resp.ok THEN resp.divs ELSE <<>>

-----------------------------------------------------------------------------
(* parse_rating_item.  A fragment is a record of what the lookups of the   *)
(* function find in it:                                                    *)
(*   num          text of the first div.num                                *)
(*   nameRusLink  text of the first "div.nameRus a"                        *)
(*   nameEng      text of the first div.nameEng                            *)
(*   vote_widget  the div descendants of the first div.vote_widget, in     *)
(*                document order; of each, whether it has a class          *)
(*                attribute, whether the joined classes contain "myVote"   *)
(*                and "show_vote_", and its text                           *)
(*   scripts      script.string of each script of the fragment, in order   *)
(*   rateNowVote  the vote attribute of the first div.rateNow[vote]        *)
(*   greySpans    the texts of the span.text-grey elements of the first    *)
(*                div.rating, in order                                     *)
(*   typeAttr     the type attribute of the first                          *)
(*                div[class*='MyKP_Folder_Select_'][type]                  *)
(*   date         text of the first div.date                               *)
(*   exc          the step (1 number, 2 local title and year, 3 original   *)
(*                title, 4 rating, 5 duration, 6 media type, 7 date) whose *)
(*                lookup raises an exception other than the ValueError of  *)
(*                strptime, 0 when none does                               *)

Film == <<"f", "i", "l", "m">>
RatingColon == <<"r", "a", "t", "i", "n", "g", ":">>
Minutes == <<"cyr_m", "cyr_i", "cyr_n">>

\* re.match(r"^(.*?)\s*\((\d{4})\)$", t) on a stripped text: the lengths k of
\* group 1 for which the rest of the pattern matches
NameYearSplits(t) ==
    LET n == Len(t)
    IN  IF /\ n >= 6
           /\ t[n] = ")"
           /\ t[n - 5] = "("
           /\ \A k \in (n - 4)..(n - 1) : t[k] \in Digits
        THEN {k \in 0..(n - 6) :
                 /\ \A j \in 1..k : t[j] # "\n"
                 /\ \A j \in (k + 1)..(n - 6) : t[j] \in Whitespace}
        ELSE {}

\* lines 148-157: the local title and the year
NameRusOf(link) ==
    IF link = None THEN <<>>
    ELSE IF NameYearSplits(Strip(link[1])) # {}
         THEN Strip(SubSeq(Strip(link[1]), 1, Min(NameYearSplits(Strip(link[1])))))
         ELSE Strip(link[1])

YearOf(link) ==
    IF link = None THEN <<>>
    ELSE IF NameYearSplits(Strip(link[1])) # {}
         THEN SubSeq(Strip(link[1]), Len(Strip(link[1])) - 4, Len(Strip(link[1])) - 1)
         ELSE <<>>

\* lines 160-165
NameEngOf(div) ==
    IF div = None THEN <<>>
    ELSE IF Strip(div[1]) = <<"nbsp">> THEN <<>> ELSE Strip(div[1])

\* lines 173-175
IsMyVoteDiv(div) == div.hasClass /\ div.myVote /\ div.showVote

\* lines 171-177: the text of the first matching div of the widget
MyVoteText(divs) ==
    LET at == {i \in 1..Len(divs) : IsMyVoteDiv(divs[i])}
    IN  IF at = {} THEN <<>> ELSE Strip(divs[Min(at)].text)

\* "rating:" in s
ContainsLit(s, lit) == \E i \in 1..Len(s) : LitAt(s, i, lit)

\* a match of rating:\s*'(\d+)' starts at position i
ScriptRatingAt(s, i) ==
    /\ LitAt(s, i, RatingColon)
    /\ LET q == SkipSpace(s, i + Len(RatingColon))
       IN  /\ q <= Len(s)
           /\ s[q] = "'"
           /\ IsDigitAt(s, q + 1)
           /\ DigitRunEnd(s, q + 1) + 1 <= Len(s)
           /\ s[DigitRunEnd(s, q + 1) + 1] = "'"

\* re.search(r"rating:\s*'(\d+)'", s): group 1 of the leftmost match
ScriptRating(s) ==
    LET at == {i \in 1..Len(s) : ScriptRatingAt(s, i)}
    IN  IF at = {} THEN None
        ELSE LET q == SkipSpace(s, Min(at) + Len(RatingColon))
             IN  Some(SubSeq(s, q + 1, DigitRunEnd(s, q + 1)))

\* lines 181-188: the rating of the first script that has one
ScriptsRating(scripts) ==
    LET at == {i \in 1..Len(scripts) :
                  /\ scripts[i] # None
                  /\ ContainsLit(scripts[i][1], RatingColon)
                  /\ ScriptRating(scripts[i][1]) # None}
    IN  IF at = {} THEN <<>> ELSE ScriptRating(scripts[Min(at)][1])[1]

\* lines 168-188
RatingFromWidget(it) ==
    IF it.vote_widget = None THEN <<>>
    ELSE IF MyVoteText(it.vote_widget[1]) # <<>> THEN MyVoteText(it.vote_widget[1])
    ELSE ScriptsRating(it.scripts)

\* lines 168-195
RatingOf(it) ==
    IF RatingFromWidget(it) # <<>> THEN RatingFromWidget(it)
    ELSE IF it.rateNowVote # None THEN it.rateNowVote[1]
    ELSE <<>>

\* the pattern \d+\s*cyr_m cyr_i cyr_n \.? is found in s
HasMinutes(s) ==
    \E i \in 1..Len(s) :
        /\ s[i] \in Digits
        /\ LitAt(s, SkipSpace(s, DigitRunEnd(s, i) + 1), Minutes)

\* line 200: the first span.text-grey whose string has the minutes pattern
DurationSpan(spans) ==
    LET at == {i \in 1..Len(spans) : HasMinutes(spans[i])}
    IN  IF at = {} THEN None ELSE Some(spans[Min(at)])

\* lines 198-204
DurationOf(spans) ==
    IF spans = None THEN <<>>
    ELSE IF DurationSpan(spans[1]) = None THEN <<>>
    ELSE IF SearchDigits(DurationSpan(spans[1])[1]) = None THEN <<>>
    ELSE SearchDigits(DurationSpan(spans[1])[1])[1]

\* lines 207-212
TypeOf(typeAttr) == IF typeAttr # None THEN typeAttr[1] ELSE Film

\* str(n) for n >= 0
RECURSIVE ToText(_)
ToText(n) ==
    LET d == <<"0", "1", "2", "3", "4", "5", "6", "7", "8", "9">>
    IN  IF n < 10 THEN <<d[n + 1]>> ELSE ToText(n \div 10) \o <<d[(n % 10) + 1]>>

\* %m and %d of strftime: two digits
Pad2(n) == IF n < 10 THEN <<"0">> \o ToText(n) ELSE ToText(n)

IsLeap(y) == (y % 4 = 0 /\ y % 100 # 0) \/ y % 400 = 0

DaysIn(m, y) ==
    IF m = 2 THEN (IF IsLeap(y) THEN 29 ELSE 28)
    ELSE IF m \in {4, 6, 9, 11} THEN 30 ELSE 31

\* the run of one or two digits that starts at i, when there is one
Num2At(t, i) ==
    IF IsDigitAt(t, i) /\ DigitRunEnd(t, i) - i <= 1
    THEN Some(SubSeq(t, i, DigitRunEnd(t, i)))
    ELSE None

\* datetime.strptime(t, "%d.%m.%Y, %H:%M"): <<year, month, day>> of the date,
\* or None where strptime raises ValueError
Strptime(t) ==
    LET dd == Num2At(t, 1)
        mAt == IF dd = None THEN 0 ELSE Len(dd[1]) + 2
        mm == IF dd # None /\ LitAt(t, mAt - 1, <<".">>) THEN Num2At(t, mAt) ELSE None
        yAt == IF mm = None THEN 0 ELSE mAt + Len(mm[1]) + 1
        yOk == /\ mm # None
               /\ LitAt(t, yAt - 1, <<".">>)
               /\ \A k \in yAt..(yAt + 3) : IsDigitAt(t, k)
               /\ LitAt(t, yAt + 4, <<",">>)
               /\ yAt + 5 <= Len(t)
               /\ t[yAt + 5] \in Whitespace
        hAt == IF yOk THEN SkipSpace(t, yAt + 5) ELSE 0
        hh == IF yOk THEN Num2At(t, hAt) ELSE None
        nAt == IF hh = None THEN 0 ELSE hAt + Len(hh[1]) + 1
        nn == IF hh # None /\ LitAt(t, nAt - 1, <<":">>) THEN Num2At(t, nAt) ELSE None
    IN  IF /\ nn # None
           /\ nAt + Len(nn[1]) - 1 = Len(t)
           /\ ToInt(mm[1]) \in 1..12
           /\ ToInt(SubSeq(t, yAt, yAt + 3)) >= 1
           /\ ToInt(dd[1]) \in 1..DaysIn(ToInt(mm[1]), ToInt(SubSeq(t, yAt, yAt + 3)))
           /\ ToInt(hh[1]) \in 0..23
           /\ ToInt(nn[1]) \in 0..59
        THEN Some(<<ToInt(SubSeq(t, yAt, yAt + 3)), ToInt(mm[1]), ToInt(dd[1])>>)
        ELSE None

\* date_obj.strftime("%Y-%m-%d")
Strftime(ymd) == ToText(ymd[1]) \o <<"-">> \o Pad2(ymd[2]) \o <<"-">> \o Pad2(ymd[3])

\* lines 215-222
DateRatedOf(div) ==
    IF div = None THEN <<>>
    ELSE IF Strptime(Strip(div[1])) # None THEN Strftime(Strptime(Strip(div[1]))[1])
    ELSE Strip(div[1])

\* lines 143-145
NumOf(div) == IF div = None THEN <<>> ELSE Strip(div[1])

\* step k is executed: neither it nor a step before it raised
Reached(it, k) == it.exc = 0 \/ k < it.exc

\* lines 130-228: the try block runs the steps in order up to the one that
\* raises; the handler of line 226 returns the record as built so far, so a
\* field keeps its initial empty value unless its step was executed
parse_rating_item(it) ==
    [num        |-> IF Reached(it, 1) THEN NumOf(it.num) ELSE <<>>,
     nameRus    |-> IF Reached(it, 2) THEN NameRusOf(it.nameRusLink) ELSE <<>>,
     year       |-> IF Reached(it, 2) THEN YearOf(it.nameRusLink) ELSE <<>>,
     nameEng    |-> IF Reached(it, 3) THEN NameEngOf(it.nameEng) ELSE <<>>,
     rating     |-> IF Reached(it, 4) THEN RatingOf(it) ELSE <<>>,
     duration   |-> IF Reached(it, 5) THEN DurationOf(it.greySpans) ELSE <<>>,
     type       |-> IF Reached(it, 6) THEN TypeOf(it.typeAttr) ELSE <<>>,
     date_rated |-> IF Reached(it, 7) THEN DateRatedOf(it.date) ELSE <<>>]

-----------------------------------------------------------------------------
(* export_to_csv, one action per step of the function.                     *)

\* the guard never taken: a page count of 0 falls through to the loop
AbortsNever(n) == FALSE

\* line 268
Aborts(n) == n = 0

\* only the local title counts
KeepRusOnly(rating_data) == rating_data.nameRus # <<>>

\* lines 246, 284
Keep(rating_data) == rating_data.nameRus # <<>> \/ rating_data.nameEng # <<>>

\* the record is put in front of the list
Prepend(acc, rating_data) == <<rating_data>> \o acc

\* line 285
Accumulate(acc, rating_data) == Append(acc, rating_data)

\* line 275: the for statement moves to the next page or leaves the loop
LoopNext(p, n) ==
    IF p < n THEN [pc |-> "fetch", page |-> p + 1] ELSE [pc |-> "write", page |-> p]

\* a page without items ends the loop
OnNoItemsBreak(p, n) == [pc |-> "write", page |-> p]

\* lines 277-279: continue
OnNoItems(p, n) == LoopNext(p, n)

\* the failure of the write is swallowed
SinkReturnAlwaysTrue(outcome) == TRUE

\* lines 306 and 310
SinkReturn(outcome) == outcome = "ok"

\* lines 230-249: extract_from_html on the fragments of a document
RECURSIVE extract_from_html(_)
extract_from_html(divs) ==
    IF divs = <<>> THEN <<>>
    ELSE LET rest == extract_from_html(SubSeq(divs, 1, Len(divs) - 1))
             rating_data == parse_rating_item(divs[Len(divs)])
         IN  IF Keep(rating_data) THEN Accumulate(rest, rating_data) ELSE rest

-----------------------------------------------------------------------------
(* Inputs: the responses of the first listing page.  indicated records the *)
(* totals the two count indicators of the document show (None: the         *)
(* indicator is absent or shows no total).                                 *)

MaxTotal == 101
MaxPages == 3

Totals == (0..MaxTotal) \cup {450, 458}

\* "1-50 iz N" with an en dash, as in the comment of line 68
SummaryText(n) == <<"1", "endash", "5", "0", " ">> \o IZ \o <<" ">> \o ToText(n)

\* a summary element that shows no total
SummaryNoTotal == <<"1", "endash", "5", "0">>

\* a total-count element that shows no number
SpanNoTotal == <<"endash">>

NoIndicator == [text |-> None, total |-> None]
SummaryOf(n) == [text |-> Some(SummaryText(n)), total |-> Some(n)]
SpanOf(n) == [text |-> Some(<<" ">> \o ToText(n) \o <<"\n">>), total |-> Some(n)]

SummaryChoices ==
    {NoIndicator, [text |-> Some(SummaryNoTotal), total |-> None]}
    \cup {SummaryOf(n) : n \in Totals}

SpanChoices ==
    {NoIndicator, [text |-> Some(SpanNoTotal), total |-> None]}
    \cup {SpanOf(n) : n \in Totals}

FirstPage(su, sp) ==
    [ok |-> TRUE, pagesFromTo |-> su.text, total_span |-> sp.text,
     indicated |-> [summary |-> su.total, span |-> sp.total]]

FirstPageFailure ==
    [ok |-> FALSE, pagesFromTo |-> None, total_span |-> None,
     indicated |-> [summary |-> None, span |-> None]]

FirstPages ==
    {FirstPageFailure} \cup {FirstPage(su, sp) : su \in SummaryChoices, sp \in SpanChoices}

\* the total the document indicates: the summary's, else the standalone element's
IndicatedTotal(d) ==
    IF d.indicated.summary # None THEN d.indicated.summary ELSE d.indicated.span

-----------------------------------------------------------------------------
(* Inputs: record fragments.  signals records the three rating signals of  *)
(* the fragment by construction (None: the signal is absent).              *)

VoteDiv(t) == [hasClass |-> TRUE, myVote |-> TRUE, showVote |-> TRUE, text |-> t]
OtherDiv(t) == [hasClass |-> TRUE, myVote |-> FALSE, showVote |-> TRUE, text |-> t]
BareDiv(t) == [hasClass |-> FALSE, myVote |-> FALSE, showVote |-> FALSE, text |-> t]

W_none == [divs |-> None, s1 |-> None]
W_vote8 == [divs |-> Some(<<VoteDiv(<<"\n", "8", " ">>)>>), s1 |-> Some(<<"8">>)]
W_otherThenVote ==
    [divs |-> Some(<<OtherDiv(<<"5">>), BareDiv(<<"4">>), VoteDiv(<<"9">>)>>),
     s1 |-> Some(<<"9">>)]

WidgetChoices ==
    {W_none, W_vote8, W_otherThenVote,
     [divs |-> Some(<<>>), s1 |-> None],
     [divs |-> Some(<<OtherDiv(<<"5">>), BareDiv(<<"4">>)>>), s1 |-> None],
     [divs |-> Some(<<VoteDiv(<<" ">>)>>), s1 |-> None]}

S_none == [strings |-> <<>>, s2 |-> None]
S_rating7 ==
    [strings |-> <<Some(<<"{">> \o RatingColon \o <<" ", "'", "7", "'", "}">>)>>,
     s2 |-> Some(<<"7">>)]

ScriptChoices ==
    {S_none, S_rating7,
     [strings |-> <<None, Some(<<"x">>), Some(RatingColon \o <<"'", "1", "0", "'">>)>>,
      s2 |-> Some(<<"1", "0">>)],
     [strings |-> <<Some(RatingColon \o <<" ", "7">>)>>, s2 |-> None]}

V_none == [vote |-> None, s3 |-> None]
V_5 == [vote |-> Some(<<"5">>), s3 |-> Some(<<"5">>)]

VoteChoices == {V_none, V_5}

T_Ab1999 == <<" ", "A", "b", " ", "(", "1", "9", "9", "9", ")", "\n">>
T_Ab == <<"A", "b">>
T_Cd == <<"C", "d">>
T_nbsp == <<"nbsp">>
T_90min == <<"9", "0", " ">> \o Minutes \o <<".">>
T_series == <<"s">>
T_date == <<"1", "5", ".", "0", "3", ".", "2", "0", "2", "1", ",", " ", "1", "4", ":", "3", "0">>
T_baddate == <<"3", "1", ".", "0", "2", ".", "2", "0", "2", "1", ",", " ", "1", "4", ":", "3", "0">>
T_num == <<" ", "1">>

Fragment(exc, link, eng, w, sc, v, spans, typeAttr, date) ==
    [exc |-> exc, num |-> Some(T_num), nameRusLink |-> link, nameEng |-> eng,
     vote_widget |-> w.divs, scripts |-> sc.strings, rateNowVote |-> v.vote,
     greySpans |-> spans, typeAttr |-> typeAttr, date |-> date,
     signals |-> [s1 |-> w.s1, s2 |-> sc.s2, s3 |-> v.s3]]

Steps == 1..7

Fragments ==
    {Fragment(exc, link, eng, w, sc, v, spans, typeAttr, date) :
        exc \in {0} \cup Steps,
        link \in {None, Some(T_Ab1999), Some(T_Ab)},
        eng \in {None, Some(T_Cd), Some(T_nbsp)},
        w \in WidgetChoices, sc \in ScriptChoices, v \in VoteChoices,
        spans \in {None, Some(<<<<"x">>, T_90min>>)},
        typeAttr \in {None, Some(T_series)},
        date \in {None, Some(T_date), Some(T_baddate)}}

\* the fragments of the listing pages of the export
F_both ==
    Fragment(0, Some(T_Ab1999), Some(T_Cd), W_vote8, S_none, V_none,
             Some(<<T_90min>>), None, Some(T_date))
F_noname ==
    Fragment(0, None, Some(T_nbsp), W_vote8, S_rating7, V_5,
             Some(<<T_90min>>), Some(T_series), Some(T_date))
F_engOnly == Fragment(0, None, Some(T_Cd), W_none, S_none, V_none, None, None, None)
F_raises ==
    Fragment(2, Some(T_Ab), Some(T_Cd), W_vote8, S_none, V_none, None, None, Some(T_date))

PageFailure == [ok |-> FALSE, divs |-> <<>>]
ListingPage(divs) == [ok |-> TRUE, divs |-> divs]

PagePool ==
    {PageFailure, ListingPage(<<>>),
     ListingPage(<<F_both, F_noname, F_engOnly>>),
     ListingPage(<<F_noname, F_both>>),
     ListingPage(<<F_noname>>),
     ListingPage(<<F_engOnly, F_raises, F_both>>)}

FirstPagePool ==
    {FirstPageFailure} \cup
    {FirstPage(su, sp) :
        su \in {NoIndicator} \cup {SummaryOf(n) : n \in {0, 50, 51, 151, 458}},
        sp \in {NoIndicator} \cup {SpanOf(n) : n \in {0, 101}}}

-----------------------------------------------------------------------------
(* Spec: one run of export_to_csv.                                         *)

PagesIdle == doc = FirstPageFailure /\ pagesOut = None
ParseIdle == item = F_engOnly /\ result = None

Init ==
    /\ pc = "start"
    /\ total_pages = 0
    /\ page = 0
    /\ items = <<>>
    /\ idx = 0
    /\ all_ratings = <<>>
    /\ src = <<>>
    /\ fetchLog = <<>>
    /\ sleepLog = <<>>
    /\ opened = 0
    /\ sinkOutcome = None
    /\ csvfile = None
    /\ retval = None
    /\ firstFetchOk = None
    /\ PagesIdle
    /\ ParseIdle

\* lines 267-275: the page count, the abort on 0, the entry of the loop
Start ==
    /\ pc = "start"
    /\ \E d \in FirstPagePool :
         /\ get_total_pages(d) <= MaxPages
         /\ total_pages' = get_total_pages(d)
         /\ firstFetchOk' = Some(d.ok)
         /\ IF Aborts(get_total_pages(d))
            THEN pc' = "done" /\ retval' = Some(FALSE) /\ page' = page
            ELSE /\ retval' = retval
                 /\ IF 1 <= get_total_pages(d)
                    THEN pc' = "fetch" /\ page' = 1
                    ELSE pc' = "write" /\ page' = page
    /\ UNCHANGED <<items, idx, all_ratings, src, fetchLog, sleepLog, opened,
                   sinkOutcome, csvfile, pagesVars, parseVars>>

\* lines 276-281: the fetch of the current page
Fetch ==
    /\ pc = "fetch"
    /\ \E resp \in PagePool :
         /\ items' = fetch_ratings_page(resp)
         /\ fetchLog' = Append(fetchLog, [page |-> page, ok |-> resp.ok, divs |-> resp.divs])
         /\ IF fetch_ratings_page(resp) = <<>>
            THEN pc' = OnNoItems(page, total_pages).pc /\ page' = OnNoItems(page, total_pages).page
            ELSE pc' = "item" /\ page' = page
    /\ idx' = 0
    /\ UNCHANGED <<total_pages, all_ratings, src, sleepLog, opened, sinkOutcome,
                   csvfile, retval, firstFetchOk, pagesVars, parseVars>>

\* lines 282-288: one fragment of the current page
ProcessItem ==
    /\ pc = "item"
    /\ idx < Len(items)
    /\ LET rating_data == parse_rating_item(items[idx + 1])
       IN  IF Keep(rating_data)
           THEN /\ all_ratings' = Accumulate(all_ratings, rating_data)
                /\ src' = Append(src, <<page, idx + 1>>)
           ELSE UNCHANGED <<all_ratings, src>>
    /\ idx' = idx + 1
    /\ UNCHANGED <<pc, total_pages, page, items, fetchLog, sleepLog, opened,
                   sinkOutcome, csvfile, retval, firstFetchOk, pagesVars, parseVars>>

\* lines 290-291: after the fragments of a page
EndPage ==
    /\ pc = "item"
    /\ idx = Len(items)
    /\ pc' = IF page < total_pages THEN "sleep" ELSE LoopNext(page, total_pages).pc
    /\ UNCHANGED <<total_pages, page, items, idx, all_ratings, src, fetchLog, sleepLog,
                   opened, sinkOutcome, csvfile, retval, firstFetchOk, pagesVars, parseVars>>

\* lines 292-293: time.sleep(1.5), then the next page
Sleep ==
    /\ pc = "sleep"
    /\ sleepLog' = Append(sleepLog, page)
    /\ pc' = LoopNext(page, total_pages).pc
    /\ page' = LoopNext(page, total_pages).page
    /\ UNCHANGED <<total_pages, items, idx, all_ratings, src, fetchLog, opened,
                   sinkOutcome, csvfile, retval, firstFetchOk, pagesVars, parseVars>>

\* lines 296-310: the file is opened and written; open or a write may raise
WriteCsv ==
    /\ pc = "write"
    /\ opened' = opened + 1
    /\ \E outcome \in {"ok", "open_fails", "write_fails"} :
         /\ sinkOutcome' = Some(outcome)
         /\ retval' = Some(SinkReturn(outcome))
         /\ CASE outcome = "ok" -> csvfile' = Some(all_ratings)
              [] outcome = "open_fails" -> csvfile' = csvfile
              [] outcome = "write_fails" ->
                    \E n \in 0..Len(all_ratings) :
                        csvfile' = Some(SubSeq(all_ratings, 1, n))
    /\ pc' = "done"
    /\ UNCHANGED <<total_pages, page, items, idx, all_ratings, src, fetchLog, sleepLog,
                   firstFetchOk, pagesVars, parseVars>>

Next == Start \/ Fetch \/ ProcessItem \/ EndPage \/ Sleep \/ WriteCsv

Spec == Init /\ [][Next]_vars

-----------------------------------------------------------------------------
(* SpecPages: get_total_pages applied to each response of FirstPages.      *)

ExportIdle ==
    /\ pc = "idle"
    /\ total_pages = 0
    /\ page = 0
    /\ items = <<>>
    /\ idx = 0
    /\ all_ratings = <<>>
    /\ src = <<>>
    /\ fetchLog = <<>>
    /\ sleepLog = <<>>
    /\ opened = 0
    /\ sinkOutcome = None
    /\ csvfile = None
    /\ retval = None
    /\ firstFetchOk = None

InitPages == ExportIdle /\ ParseIdle /\ doc \in FirstPages /\ pagesOut = None

CallGetTotalPages ==
    /\ pagesOut = None
    /\ pagesOut' = Some(get_total_pages(doc))
    /\ UNCHANGED <<doc, exportVars, parseVars>>

NextPages == CallGetTotalPages

SpecPages == InitPages /\ [][NextPages]_vars

-----------------------------------------------------------------------------
(* SpecParse: parse_rating_item applied to each fragment of Fragments.     *)

InitParse == ExportIdle /\ PagesIdle /\ item \in Fragments /\ result = None

CallParseRatingItem ==
    /\ result = None
    /\ result' = Some(parse_rating_item(item))
    /\ UNCHANGED <<item, exportVars, pagesVars>>

NextParse == CallParseRatingItem

SpecParse == InitParse /\ [][NextParse]_vars

-----------------------------------------------------------------------------
(* Properties of export_to_csv, checked under Spec.                        *)

HasName(rec) == rec.nameRus # <<>> \/ rec.nameEng # <<>>

\* the run is past its loop
LoopOver == pc \in {"write", "done"}

\* fragment i of the k-th fetched page has been through parse_rating_item
Processed(k, i) == k < Len(fetchLog) \/ pc # "item" \/ i <= idx

\* the k-th fetched page has been processed whole
PageProcessed(k) == k < Len(fetchLog) \/ pc # "item"

\* the accumulated records that come from page k, in their order
RowsOfPage(k) ==
    LET js == {j \in 1..Len(src) : src[j][1] = k}
    IN  IF js = {} THEN <<>>
        ELSE SubSeq(all_ratings, Min(js), CHOOSE m \in js : \A n \in js : n <= m)

\* the positions <<page, index>> of the fetched fragments whose record has a name
RetainedPositions ==
    UNION {{<<fetchLog[k].page, i>> :
               i \in {n \in 1..Len(fetchLog[k].divs) :
                         fetchLog[k].ok /\ HasName(parse_rating_item(fetchLog[k].divs[n]))}} :
           k \in 1..Len(fetchLog)}

Before(a, b) == a[1] < b[1] \/ (a[1] = b[1] /\ a[2] < b[2])

\* C1: when the request of get_total_pages fails, export_to_csv returns False,
\* has fetched no page, has never paused and has neither opened nor written
\* the output file.
C1_FailedCountFetchAborts ==
    firstFetchOk = Some(FALSE) =>
        /\ pc = "done"
        /\ retval = Some(FALSE)
        /\ fetchLog = <<>>
        /\ sleepLog = <<>>
        /\ opened = 0
        /\ csvfile = None

C1_Witness == firstFetchOk = Some(FALSE) /\ pc = "done" /\ retval = Some(FALSE)

\* C4: a parsed record is in the accumulator exactly when one of its two names
\* is non-empty, whatever its other fields hold; the same filter gives
\* extract_from_html its result.
C4_AccumulatedIffNamed ==
    /\ Len(src) = Len(all_ratings)
    /\ \A j \in 1..Len(all_ratings) : HasName(all_ratings[j])
    /\ \A k \in 1..Len(fetchLog) : \A i \in 1..Len(fetchLog[k].divs) :
         Processed(k, i) =>
            LET rec == parse_rating_item(fetchLog[k].divs[i])
            IN  HasName(rec) <=>
                   \E j \in 1..Len(src) :
                       src[j] = <<fetchLog[k].page, i>> /\ all_ratings[j] = rec
    /\ \A k \in 1..Len(fetchLog) :
         PageProcessed(k) =>
            /\ RowsOfPage(fetchLog[k].page) = extract_from_html(fetchLog[k].divs)
            /\ \A n \in 1..Len(extract_from_html(fetchLog[k].divs)) :
                  HasName(extract_from_html(fetchLog[k].divs)[n])

\* a record without rating, year, duration and date was kept for its name, and
\* a record with a rating was dropped for having no name
C4_Witness ==
    /\ pc = "done"
    /\ \E j \in 1..Len(all_ratings) :
         /\ all_ratings[j].nameRus = <<>>
         /\ all_ratings[j].rating = <<>>
         /\ all_ratings[j].year = <<>>
         /\ all_ratings[j].date_rated = <<>>
    /\ \E k \in 1..Len(fetchLog) : \E i \in 1..Len(fetchLog[k].divs) :
         /\ parse_rating_item(fetchLog[k].divs[i]).rating # <<>>
         /\ ~HasName(parse_rating_item(fetchLog[k].divs[i]))
         /\ \A j \in 1..Len(src) : src[j] # <<fetchLog[k].page, i>>

\* C5: with a page count N >= 1, fetch_ratings_page is called once for each of
\* the pages 1..N in ascending order, whichever of the fetches fail; a failed
\* fetch contributes no record, leaves the records of the earlier pages in the
\* accumulator, and the run still reaches the sink.
C5_EveryPageFetchedOnce ==
    /\ \A k \in 1..Len(fetchLog) : fetchLog[k].page = k
    /\ Len(fetchLog) <= total_pages
    /\ (LoopOver /\ total_pages >= 1) => Len(fetchLog) = total_pages
    /\ \A k \in 1..Len(fetchLog) :
         ~fetchLog[k].ok => \A j \in 1..Len(src) : src[j][1] # k
    /\ \A k \in 1..Len(fetchLog) :
         PageProcessed(k) =>
            Cardinality({j \in 1..Len(src) : src[j][1] = k})
               = Len(extract_from_html(fetchLog[k].divs))
    /\ (pc = "done" /\ total_pages >= 1) => opened = 1

C5_Witness ==
    /\ pc = "done"
    /\ Len(fetchLog) = 3
    /\ fetchLog[1].ok /\ ~fetchLog[2].ok /\ fetchLog[3].ok
    /\ \E j \in 1..Len(src) : src[j][1] = 1
    /\ \E j \in 1..Len(src) : src[j][1] = 3
    /\ opened = 1

\* C7: with a page count N >= 1, a pause follows the fetch of every page
\* 1..N-1, also of a page whose fetch failed or gave no fragment, and none
\* follows page N: N-1 pauses in a run.
C7_PauseAfterEveryPageButLast ==
    (LoopOver /\ total_pages >= 1) => sleepLog = [k \in 1..(total_pages - 1) |-> k]

\* C9: with a page count N >= 1, the rows handed to the sink are the records
\* with a name of the fetched pages, each once, by page and within a page in
\* the order of the fragments; their number is the number of such fragments.
C9_RowsAreRetainedRecordsInOrder ==
    (LoopOver /\ total_pages >= 1) =>
        /\ Len(all_ratings) = Cardinality(RetainedPositions)
        /\ Len(src) = Len(all_ratings)
        /\ \A j \in 1..Len(src) :
             /\ src[j] \in RetainedPositions
             /\ all_ratings[j] = parse_rating_item(fetchLog[src[j][1]].divs[src[j][2]])
        /\ \A j \in 1..Len(src) : \A n \in 1..Len(src) :
             j < n => Before(src[j], src[n])
        /\ sinkOutcome = Some("ok") => csvfile = Some(all_ratings)

C9_Witness ==
    /\ pc = "done"
    /\ total_pages = 2
    /\ sinkOutcome = Some("ok")
    /\ csvfile = Some(all_ratings)
    /\ Len(all_ratings) = 4
    /\ Len(fetchLog[1].divs) = 3
    /\ Len(fetchLog[2].divs) = 3
    /\ all_ratings[2] # all_ratings[3]

\* C10: with a page count N >= 1, the output file is written once, after the
\* last page, and export_to_csv returns True exactly when that write
\* succeeded, however many fetches failed and whether or not a record was
\* accumulated; a failed write gives False.
C10_ReturnIsSinkResult ==
    /\ opened <= 1
    /\ pc # "done" => (opened = 0 /\ retval = None /\ sinkOutcome = None)
    /\ (opened = 1 /\ total_pages >= 1) =>
          /\ Len(fetchLog) = total_pages
          /\ pc = "done"
    /\ (pc = "done" /\ total_pages >= 1) =>
          /\ opened = 1
          /\ sinkOutcome # None
          /\ retval \in {Some(TRUE), Some(FALSE)}
          /\ retval = Some(TRUE) <=> sinkOutcome = Some("ok")

\* every fetch failed, nothing was accumulated, the write succeeded
C10_Witness ==
    /\ pc = "done"
    /\ total_pages = 2
    /\ \A k \in 1..Len(fetchLog) : ~fetchLog[k].ok
    /\ all_ratings = <<>>
    /\ sinkOutcome = Some("ok")
    /\ retval = Some(TRUE)

-----------------------------------------------------------------------------
(* Properties of get_total_pages, checked under SpecPages.                 *)

\* C2: when the request succeeds and the document shows no count indicator or
\* a total of 0, get_total_pages returns 1, so that 0 is returned only when
\* the request failed.
C2_FallbackIsOne ==
    (pagesOut # None /\ doc.ok) =>
        /\ (IndicatedTotal(doc) = None \/ IndicatedTotal(doc) = Some(0)) => pagesOut = Some(1)
        /\ pagesOut # Some(0)

\* C3: when the request succeeds, get_total_pages returns the ceiling of
\* total / 50 for the total of the summary indicator, or else of the
\* standalone element: for a total >= 1 the result p has
\* 50 * (p - 1) < total <= 50 * p; 458 gives 10 and 450 gives 9.
C3_CeilingOfIndicatedTotal ==
    (pagesOut # None /\ doc.ok /\ IndicatedTotal(doc) # None) =>
        LET total == IndicatedTotal(doc)[1]
            p == pagesOut[1]
        IN  /\ total >= 1 => (50 * (p - 1) < total /\ total <= 50 * p)
            /\ total = 0 => p = 0
            /\ total = 458 => p = 10
            /\ total = 450 => p = 9

\* both indicators are present with different totals; the summary's decides
C3_Witness ==
    /\ pagesOut = Some(10)
    /\ doc.indicated.summary = Some(458)
    /\ doc.indicated.span = Some(450)

-----------------------------------------------------------------------------
(* Properties of parse_rating_item, checked under SpecParse.               *)

\* the value of the lowest-numbered rating signal that is present
ExpectedRating(sig) ==
    IF sig.s1 # None THEN sig.s1[1]
    ELSE IF sig.s2 # None THEN sig.s2[1]
    ELSE IF sig.s3 # None THEN sig.s3[1]
    ELSE <<>>

\* C6: for every combination of the three rating signals, with or without a
\* vote_widget container, rating is the value of the lowest-numbered signal
\* present, and is empty only when all three are absent.
C6_LowestSignalWins ==
    (result # None /\ item.exc = 0) => result[1].rating = ExpectedRating(item.signals)

FieldsOfStep(k) ==
    CASE k = 1 -> {"num"}
      [] k = 2 -> {"nameRus", "year"}
      [] k = 3 -> {"nameEng"}
      [] k = 4 -> {"rating"}
      [] k = 5 -> {"duration"}
      [] k = 6 -> {"type"}
      [] k = 7 -> {"date_rated"}

\* C8: an exception in the extraction of one field leaves every other field,
\* those extracted later included, with the value it has without the failure.
C8_OtherFieldsUnaffected ==
    (result # None /\ item.exc # 0) =>
        \A f \in DOMAIN result[1] \ FieldsOfStep(item.exc) :
            result[1][f] = parse_rating_item([item EXCEPT !.exc = 0])[f]

====
